---- MODULE Spec2Model ----
(***************************************************************************)
(* Model of prelude/calendar.py:                                           *)
(*   - create_train_val_date_splits, the chronological train/validation    *)
(*     split generator (specifications Spec and FairSpec);                 *)
(*   - get_date_by_offset, the trading-calendar offset lookup              *)
(*     (specification CalSpec).                                            *)
(* Python lists are 0-based; TLA+ sequences are 1-based.  Offsets such as  *)
(* start, end and idx0 keep their Python (0-based) values and the slicing  *)
(* operators below do the conversion.                                      *)
(***************************************************************************)
EXTENDS Integers, Sequences, FiniteSets, TLC

\* ------------------------------------------------------------------ bounds
MaxLen == 6      \* longest dates list
MaxItem == 2     \* date identifiers are 1..MaxItem
MaxWin == 3      \* largest train_window / val_window
MaxNeg == 2      \* windows range over -MaxNeg..MaxWin
MaxDay == 3      \* calendar TradeDate values are 1..MaxDay
MaxOff == 2      \* offset ranges over -MaxOff..MaxOff

VARIABLES
    \* create_train_val_date_splits: arguments
    dates, train_window, val_window, fold_incomplete,
    \* create_train_val_date_splits: locals of the generator frame
    pc, start, done_flag,
    \* the splits yielded so far, in yield order
    out,
    \* get_date_by_offset: the calendar file and the arguments
    cal, run_date, offset, exclude_bad_dates, include_half_days,
    \* get_date_by_offset: locals and result
    cal_pc, df_cal, idx0, result

splitVars == <<dates, train_window, val_window, fold_incomplete,
               pc, start, done_flag, out>>
calVars == <<cal, run_date, offset, exclude_bad_dates, include_half_days,
             cal_pc, df_cal, idx0, result>>
vars == <<dates, train_window, val_window, fold_incomplete,
          pc, start, done_flag, out,
          cal, run_date, offset, exclude_bad_dates, include_half_days,
          cal_pc, df_cal, idx0, result>>

\* ------------------------------------------------------- Python primitives
Min(a, b) == IF a <= b THEN a ELSE b

Max(a, b) == IF a >= b THEN a ELSE b

\* A slice bound as Python normalises it: a negative bound counts from the
\* end, and the result is clamped to 0..n.
ClampIdx(i, n) == IF i < 0 THEN Max(i + n, 0) ELSE Min(i, n)

\* s[lo:hi]
Slice(s, lo, hi) ==
    LET n == Len(s)
        a == ClampIdx(lo, n)
        b == ClampIdx(hi, n)
    IN  IF b > a THEN [k \in 1..(b - a) |-> s[a + k]] ELSE <<>>

\* s[lo:]
SliceFrom(s, lo) ==
    LET n == Len(s)
        a == ClampIdx(lo, n)
    IN  IF n > a THEN [k \in 1..(n - a) |-> s[a + k]] ELSE <<>>

\* s[:hi]
SliceTo(s, hi) ==
    LET b == ClampIdx(hi, Len(s))
    IN  IF b > 0 THEN [k \in 1..b |-> s[k]] ELSE <<>>

\* Whether i is an element still to be produced by range(0, stop, step),
\* for a nonzero step.
InRange(i, stop, step) == IF step > 0 THEN i < stop ELSE i > stop

\* ------------------------------------------- create_train_val_date_splits
total_window == train_window + val_window

\* end = start + total_window
EndOf(s) == s + total_window

\* is_last_window = end + val_window > len(dates)
IsLastWindow(s) == EndOf(s) + val_window > Len(dates)

\* Variant: the fold_incomplete flag is not consulted.
FoldsHereNoFlag(s) == IsLastWindow(s)

\* if fold_incomplete and is_last_window
FoldsHere(s) == fold_incomplete /\ IsLastWindow(s)

\* window = dates[start:] when folding, dates[start:end] otherwise
Window(s) == IF FoldsHere(s) THEN SliceFrom(dates, s) ELSE Slice(dates, s, EndOf(s))

\* Variant: the break test is strict.
StopsHereStrict(window) == Len(window) < train_window

\* if len(window) <= train_window: break
StopsHere(window) == Len(window) <= train_window

\* Variant: the training slice is cut at val_window.
TrainCutAtVal(window) == SliceTo(window, val_window)

\* train = window[:train_window]
Train(window) == SliceTo(window, train_window)

\* Variant: the validation slice is truncated to val_window items.
ValTruncated(window) == Slice(window, train_window, train_window + val_window)

\* val = window[train_window:]
Val(window) == SliceFrom(window, train_window)

\* Variant: range() is given no step.
NextStartUnitStep(s) == s + 1

\* the next element of range(0, len(dates), val_window)
NextStart(s) == s + val_window

\* Variant: the break after the folded split is missing.
BreakAfterYieldNever == FALSE

\* if done_flag: break
BreakAfterYield == done_flag

\* Chronologically ordered lists of date identifiers (repeats allowed).
DateLists ==
    UNION { { s \in [1..n -> 1..MaxItem] :
                \A i \in 1..(n - 1) : s[i] <= s[i + 1] } : n \in 0..MaxLen }

WinRange == (0 - MaxNeg)..MaxWin

SplitIdle ==
    /\ dates = <<>>
    /\ train_window = 1
    /\ val_window = 1
    /\ fold_incomplete = FALSE
    /\ pc = "idle"
    /\ start = 0
    /\ done_flag = FALSE
    /\ out = <<>>

CalIdle ==
    /\ cal = <<>>
    /\ run_date = 1
    /\ offset = 0
    /\ exclude_bad_dates = FALSE
    /\ include_half_days = TRUE
    /\ cal_pc = "idle"
    /\ df_cal = <<>>
    /\ idx0 = 0
    /\ result = 0

\* The generator object has been created; its body has not run yet.
Init ==
    /\ dates \in DateLists
    /\ train_window \in WinRange
    /\ val_window \in WinRange
    /\ fold_incomplete \in BOOLEAN
    /\ pc = "call"
    /\ start = 0
    /\ done_flag = FALSE
    /\ out = <<>>
    /\ CalIdle

\* Lines 149-152: total_window, done_flag = False, and the range object of
\* the for loop; range() raises ValueError for a zero step.
Enter ==
    /\ pc = "call"
    /\ done_flag' = FALSE
    /\ start' = 0
    /\ pc' = IF val_window = 0 THEN "error" ELSE "for"
    /\ UNCHANGED <<dates, train_window, val_window, fold_incomplete, out>>
    /\ UNCHANGED calVars

\* Line 152: the for loop takes the next start, or ends.
ForNext ==
    /\ pc = "for"
    /\ pc' = IF InRange(start, Len(dates), val_window) THEN "body" ELSE "done"
    /\ UNCHANGED <<dates, train_window, val_window, fold_incomplete,
                   start, done_flag, out>>
    /\ UNCHANGED calVars

\* Lines 153-172: one pass of the loop body, up to the break or the yield.
Body ==
    /\ pc = "body"
    /\ LET window == Window(start)
       IN  /\ done_flag' = (done_flag \/ FoldsHere(start))
           /\ IF StopsHere(window)
              THEN /\ pc' = "done"
                   /\ out' = out
              ELSE /\ pc' = "yield"
                   /\ out' = Append(out, [train |-> Train(window),
                                          val |-> Val(window),
                                          start |-> start,
                                          folded |-> FoldsHere(start)])
    /\ UNCHANGED <<dates, train_window, val_window, fold_incomplete, start>>
    /\ UNCHANGED calVars

\* Lines 174-175, then back to the loop header with the next start.
Resume ==
    /\ pc = "yield"
    /\ IF BreakAfterYield
       THEN /\ pc' = "done"
            /\ start' = start
       ELSE /\ pc' = "for"
            /\ start' = NextStart(start)
    /\ UNCHANGED <<dates, train_window, val_window, fold_incomplete,
                   done_flag, out>>
    /\ UNCHANGED calVars

Next == Enter \/ ForNext \/ Body \/ Resume

Spec == Init /\ [][Next]_vars

\* The consumer iterates the generator to exhaustion.
FairSpec == Spec /\ WF_vars(Next)

\* ------------------------------------------------------ get_date_by_offset
\* Rows of the calendar file: TradeDate, isValid, isHalfDay.
Rows == [TradeDate : 1..MaxDay, isValid : {0, 1}, isHalfDay : {0, 1}]

\* Calendar files: rows in strictly ascending TradeDate order.
Calendars ==
    UNION { { s \in [1..n -> Rows] :
                \A i \in 1..(n - 1) : s[i].TradeDate < s[i + 1].TradeDate }
            : n \in 1..MaxDay }

\* pl.col("isValid") == 1
RowIsValid(r) == r.isValid = 1

\* pl.col("isHalfDay") == 0
RowIsFullDay(r) == r.isHalfDay = 0

\* Lines 118-122: the two optional filters, applied in order.
FilterCalendar(df) ==
    LET a == IF exclude_bad_dates THEN SelectSeq(df, RowIsValid) ELSE df
    IN  IF ~include_half_days THEN SelectSeq(a, RowIsFullDay) ELSE a

\* (pl.col("TradeDate") == run_date).arg_true(): the 0-based row numbers
\* whose TradeDate is run_date.
ArgTrue(df) == { i - 1 : i \in { j \in 1..Len(df) : df[j].TradeDate = run_date } }

\* Series.__getitem__ with an integer accepts -n..n-1 and raises IndexError
\* outside it.
IndexInBounds(n, i) == (0 - n) <= i /\ i < n

\* Series.__getitem__ with an integer: a negative index counts from the end.
SeriesGet(df, i) ==
    IF i < 0 THEN df[i + Len(df) + 1].TradeDate ELSE df[i + 1].TradeDate

CalInit ==
    /\ cal \in Calendars
    /\ run_date \in 1..MaxDay
    /\ offset \in (0 - MaxOff)..MaxOff
    /\ exclude_bad_dates \in BOOLEAN
    /\ include_half_days \in BOOLEAN
    /\ cal_pc = "call"
    /\ df_cal = <<>>
    /\ idx0 = 0
    /\ result = 0
    /\ SplitIdle

\* Lines 116-122: read the calendar file and filter it.
ReadCalendar ==
    /\ cal_pc = "call"
    /\ df_cal' = FilterCalendar(cal)
    /\ cal_pc' = "filtered"
    /\ UNCHANGED <<cal, run_date, offset, exclude_bad_dates, include_half_days,
                   idx0, result>>
    /\ UNCHANGED splitVars

\* Line 124: .item() needs exactly one matching row, and raises otherwise.
Locate ==
    /\ cal_pc = "filtered"
    /\ IF Cardinality(ArgTrue(df_cal)) = 1
       THEN /\ idx0' = CHOOSE i \in ArgTrue(df_cal) : TRUE
            /\ cal_pc' = "located"
       ELSE /\ idx0' = idx0
            /\ cal_pc' = "error"
    /\ UNCHANGED <<cal, run_date, offset, exclude_bad_dates, include_half_days,
                   df_cal, result>>
    /\ UNCHANGED splitVars

\* Line 125: df_cal["TradeDate"][idx0 + offset]
Lookup ==
    /\ cal_pc = "located"
    /\ IF IndexInBounds(Len(df_cal), idx0 + offset)
       THEN /\ result' = SeriesGet(df_cal, idx0 + offset)
            /\ cal_pc' = "returned"
       ELSE /\ result' = result
            /\ cal_pc' = "error"
    /\ UNCHANGED <<cal, run_date, offset, exclude_bad_dates, include_half_days,
                   df_cal, idx0>>
    /\ UNCHANGED splitVars

CalNext == ReadCalendar \/ Locate \/ Lookup

CalSpec == CalInit /\ [][CalNext]_vars

\* ------------------------------------------------------------------ claims
Pos == train_window > 0 /\ val_window > 0

NonPos == train_window <= 0 \/ val_window <= 0

Last == out[Len(out)]

\* dates[a : a + n] written out position by position (0-based a).
DatesAt(a, n) == [i \in 1..n |-> dates[a + i]]

\* The 0-based positions of dates taken by the training slice of split k.
TrainPositions(k) == { out[k].start + i : i \in 0..(Len(out[k].train) - 1) }

\* The validation slices of the first k splits, concatenated in yield order.
RECURSIVE ConcatVals(_)
ConcatVals(k) == IF k = 0 THEN <<>> ELSE ConcatVals(k - 1) \o out[k].val

\* ceil(a / b) for b > 0
CeilDiv(a, b) == (a + b - 1) \div b

\* C1 as stated: with fold_incomplete false and positive windows, every
\* yielded validation slice has exactly val_window elements.
C1_EveryValFull ==
    (Pos /\ ~fold_incomplete) =>
        \A k \in DOMAIN out : Len(out[k].val) = val_window

\* C1 amended: with fold_incomplete false and positive windows, every yielded
\* validation slice has between 1 and val_window elements, namely the
\* min(val_window, len(dates) - start - train_window) items that follow its
\* training slice, and every one but the last yielded has exactly val_window.
C1_ValFullExceptLast ==
    (Pos /\ ~fold_incomplete) =>
        \A k \in DOMAIN out :
            /\ Len(out[k].val) >= 1
            /\ Len(out[k].val) <= val_window
            /\ Len(out[k].val) =
                 Min(val_window, Len(dates) - out[k].start - train_window)
            /\ k < Len(out) => Len(out[k].val) = val_window

C1_Witness ==
    /\ pc = "done"
    /\ Pos
    /\ ~fold_incomplete
    /\ Len(out) >= 2
    /\ Len(Last.val) < val_window

\* C2 as stated: with fold_incomplete false and positive windows, a dates list
\* shorter than train_window + val_window yields nothing and raises nothing.
C2_ShortYieldsEmpty ==
    (Pos /\ ~fold_incomplete /\ Len(dates) < train_window + val_window) =>
        (pc # "error" /\ out = <<>>)

\* C2 amended: with fold_incomplete false and positive windows, a dates list
\* of at most train_window items yields nothing and raises nothing; one with
\* more than train_window but fewer than train_window + val_window items
\* yields the single split (dates[:train_window], dates[train_window:]).
C2_NoValYieldsEmpty ==
    (Pos /\ ~fold_incomplete) =>
        /\ pc # "error"
        /\ Len(dates) <= train_window => out = <<>>
        /\ (/\ pc = "done"
            /\ Len(dates) > train_window
            /\ Len(dates) < train_window + val_window)
           => out = << [train |-> DatesAt(0, train_window),
                        val |-> DatesAt(train_window, Len(dates) - train_window),
                        start |-> 0,
                        folded |-> FALSE] >>

C2_Witness ==
    /\ pc = "done"
    /\ Pos
    /\ ~fold_incomplete
    /\ Len(dates) = train_window
    /\ start = 0
    /\ out = <<>>

\* C3 as stated: with a non-positive train_window or val_window the generator
\* fails or yields nothing; no split is ever yielded.
C3_NonPositiveYieldsNothing == NonPos => out = <<>>

\* C4: for positive windows, every yielded training slice has exactly
\* train_window elements and is dates[start : start + train_window].
C4_TrainSlice ==
    Pos =>
        \A k \in DOMAIN out :
            /\ Len(out[k].train) = train_window
            /\ out[k].start + train_window <= Len(dates)
            /\ out[k].train = DatesAt(out[k].start, train_window)

C4_Witness ==
    /\ pc = "done"
    /\ Pos
    /\ train_window >= 2
    /\ train_window # val_window
    /\ Len(out) >= 2
    /\ Last.start > 0

\* C5: for positive windows, every yielded validation slice but the last has
\* exactly val_window elements, and every one has at least 1 element.
C5_ValLengths ==
    Pos =>
        \A k \in DOMAIN out :
            /\ Len(out[k].val) >= 1
            /\ k < Len(out) => Len(out[k].val) = val_window

C5_Witness ==
    /\ pc = "done"
    /\ Pos
    /\ fold_incomplete
    /\ Len(out) >= 2
    /\ Last.folded
    /\ Len(Last.val) > val_window

\* C6: with fold_incomplete true, positive windows and more than train_window
\* dates, the last split yielded is the folded one, its validation slice is
\* dates[start + train_window :] and so ends with the last date, and nothing
\* is yielded after a folded split.
C6_FoldRunsToEnd ==
    (Pos /\ fold_incomplete /\ Len(dates) > train_window) =>
        /\ \A k \in DOMAIN out : out[k].folded => k = Len(out)
        /\ pc = "done" =>
             /\ out # <<>>
             /\ Last.folded
             /\ Last.val = DatesAt(Last.start + train_window,
                                   Len(dates) - Last.start - train_window)

C6_Witness ==
    /\ pc = "done"
    /\ Pos
    /\ fold_incomplete
    /\ Len(out) >= 2
    /\ Last.start + val_window < Len(dates)
    /\ Len(Last.val) # val_window

\* C7: for positive windows, split k (counting from 0) starts at offset
\* k * val_window, and when val_window < train_window consecutive training
\* slices share exactly train_window - val_window positions of dates.
C7_Stride ==
    Pos =>
        \A k \in DOMAIN out :
            /\ out[k].start = (k - 1) * val_window
            /\ (k < Len(out) /\ val_window < train_window) =>
                 /\ Cardinality(TrainPositions(k) \cap TrainPositions(k + 1))
                      = train_window - val_window
                 /\ SubSeq(out[k].train, val_window + 1, train_window)
                      = SubSeq(out[k + 1].train, 1, train_window - val_window)

C7_Witness ==
    /\ pc = "done"
    /\ Pos
    /\ val_window >= 2
    /\ val_window < train_window
    /\ Len(out) >= 2

\* C8: for positive windows, iteration terminates, and at most
\* ceil(len(dates) / val_window) splits are yielded.
C8_Terminates ==
    /\ [](Pos => Len(out) <= CeilDiv(Len(dates), val_window))
    /\ <>(Pos => pc = "done")

C8_Witness ==
    /\ pc = "done"
    /\ Pos
    /\ val_window >= 2
    /\ Len(out) >= 2
    /\ Len(out) = CeilDiv(Len(dates), val_window)

\* C9 as stated: when get_date_by_offset returns, the result is the date
\* |offset| rows after (offset > 0) or before (offset < 0) run_date in the
\* filtered calendar; a negative offset never returns a date after run_date.
C9_OffsetNeverWraps ==
    cal_pc = "returned" =>
        /\ idx0 + offset >= 0
        /\ idx0 + offset < Len(df_cal)
        /\ result = df_cal[idx0 + offset + 1].TradeDate
        /\ offset < 0 => result <= run_date

\* C10: for positive windows, once iteration has ended the validation slices
\* concatenated in yield order are dates[train_window:], each slice beginning
\* at the position where the previous one ended, and nothing is yielded
\* exactly when len(dates) <= train_window.
C10_ValsCoverTail ==
    (Pos /\ pc = "done") =>
        /\ out = <<>> <=> Len(dates) <= train_window
        /\ Len(dates) > train_window =>
             /\ ConcatVals(Len(out))
                  = DatesAt(train_window, Len(dates) - train_window)
             /\ \A k \in DOMAIN out :
                  out[k].start + train_window
                    = train_window + Len(ConcatVals(k - 1))

C10_Witness ==
    /\ pc = "done"
    /\ Pos
    /\ Len(dates) > train_window + val_window
    /\ Len(out) >= 3
    /\ Len(ConcatVals(Len(out))) = Len(dates) - train_window

====
